---- MODULE Spec2Model ----
(***************************************************************************)
(* hgrow: the lazy, rule-driven attribute resolver (hgrow/entity.py), its   *)
(* JSON cache (hgrow/storage.py) and the grid of the combined figure       *)
(* (hgrow/plot.py).                                                        *)
(*                                                                         *)
(* One entity object is live at a time; the cache directory outlives it.   *)
(* Every method call is one action: a top-level get runs the whole nested  *)
(* resolution (the recursive operator Get) before the next call starts.    *)
(***************************************************************************)
EXTENDS Integers, Sequences, FiniteSets, TLC

VARIABLES
    store,      \* the cache directory: key -> file (storage.py)
    alive,      \* an Entity object has been constructed and is held by the caller
    idx,        \* Entity._idx
    data,       \* Entity._data
    requested,  \* Entity._requested
    rules,      \* Entity._rules
    updated,    \* Entity._updated
    cacheable,  \* Entity._cacheable
    calls,      \* observer: producer invocations on the live entity, per producer
    writes,     \* observer: number of save_cache calls so far
    changed,    \* observer: a set has added or overwritten a cacheable name since
                \*   the last save call (or since construction)
    marked,     \* observer: the names whose stored value was last stored under the
                \*   cacheable marking (set(..., True), a cacheable mapping, load)
    plot,       \* the ComboPlot object: its fields, and as observers the cells
                \*   handed out, drawn on and turned off
    trip,       \* observer: how far the caller is into set-save-load-get
    op          \* observer: the last call made and what the caller saw of it

vars == <<store, alive, idx, data, requested, rules, updated, cacheable,
          calls, writes, changed, marked, plot, trip, op>>

-----------------------------------------------------------------------------
(* Bounds of the exploration. *)

\* producer invocations observed on one entity
MaxCalls == 2
\* save_cache calls observed
MaxWrites == 1
\* depth at which the interpreter gives up on a recursion (RecursionError)
MaxDepth == 6
\* producer invocations observed on one entity of the dependency-graph family
MaxGraphCalls == 3
\* authors and columns of a combined figure
MaxAuthors == 5
MaxCols == 4

-----------------------------------------------------------------------------
(* Values.  Python values and JSON values are records of one shape so that *)
(* any two can be compared: tag, a number, and a mapping from keys to      *)
(* numbers.  A mapping key is an int or a str holding the same digits; a   *)
(* list is a mapping from its positions.  A str value is the number that   *)
(* identifies the text.                                                    *)

EmptyMap == [k \in {} |-> 0]

IntKey(n) == [kt |-> "int", d |-> n]
StrKey(n) == [kt |-> "str", d |-> n]
\* a position of a list, from 0
IdxKey(i) == [kt |-> "idx", d |-> i]

PyNone == [tag |-> "none", num |-> 0, map |-> EmptyMap]
PyInt(n) == [tag |-> "int", num |-> n, map |-> EmptyMap]
PyDict(m) == [tag |-> "dict", num |-> 0, map |-> m]
PyStr(n) == [tag |-> "str", num |-> n, map |-> EmptyMap]
PyFloat(n) == [tag |-> "float", num |-> n, map |-> EmptyMap]

\* the positions 0..Len(s)-1 of the sequence s and what stands there
Items(s) == [k \in {IdxKey(i - 1) : i \in 1..Len(s)} |-> s[k.d + 1]]

\* a list of str, each the decimal text of a number
PyList(s) == [tag |-> "list", num |-> Len(s), map |-> Items(s)]
\* np.asarray(s, dtype=np.int32)
NdArray(s) == [tag |-> "ndarray", num |-> Len(s), map |-> Items(s)]

JsonNull == [tag |-> "null", num |-> 0, map |-> EmptyMap]
JsonNumber(n) == [tag |-> "number", num |-> n, map |-> EmptyMap]
JsonObject(m) == [tag |-> "object", num |-> 0, map |-> m]
JsonString(n) == [tag |-> "string", num |-> n, map |-> EmptyMap]
JsonReal(n) == [tag |-> "real", num |-> n, map |-> EmptyMap]
JsonArray(n, m) == [tag |-> "array", num |-> n, map |-> m]
\* json.dump raises TypeError for an object it cannot serialize
JsonTypeError == [tag |-> "TypeError", num |-> 0, map |-> EmptyMap]

\* json.dump turns every mapping key into a string.
KeyToStr(k) == StrKey(k.d)

EncodeMap(m) ==
    [k \in {KeyToStr(j) : j \in DOMAIN m} |->
        m[CHOOSE j \in DOMAIN m : KeyToStr(j) = k]]

\* json.dump of one attribute value
JsonEncode(v) ==
    CASE v.tag = "int" -> JsonNumber(v.num)
      [] v.tag = "dict" -> JsonObject(EncodeMap(v.map))
      [] v.tag = "str" -> JsonString(v.num)
      [] v.tag = "float" -> JsonReal(v.num)
      [] v.tag = "list" -> JsonArray(v.num, v.map)
      [] v.tag = "ndarray" -> JsonTypeError
      [] OTHER -> JsonNull

\* json.load of one attribute value
JsonDecode(j) ==
    CASE j.tag = "number" -> PyInt(j.num)
      [] j.tag = "object" -> PyDict(j.map)
      [] j.tag = "string" -> PyStr(j.num)
      [] j.tag = "real" -> PyFloat(j.num)
      [] j.tag = "array" -> [tag |-> "list", num |-> j.num, map |-> j.map]
      [] OTHER -> PyNone

\* json.dump(data, f): the text of the file, as a mapping name -> JSON value
JsonDump(m) == [n \in DOMAIN m |-> JsonEncode(m[n])]

\* json.load(f)
JsonLoad(t) == [n \in DOMAIN t |-> JsonDecode(t[n])]

NoAttrs == [n \in {} |-> PyNone]

-----------------------------------------------------------------------------
(* storage.py *)

NoFile == [exists |-> FALSE, text |-> NoAttrs]
File(t) == [exists |-> TRUE, text |-> t]

\* Python's None / a dict, as load_cache returns and Entity.__init__ takes them
None == [none |-> TRUE, map |-> NoAttrs]
Dict(m) == [none |-> FALSE, map |-> m]

load_cache(st, author_id) ==
    IF st[author_id].exists THEN Dict(JsonLoad(st[author_id].text)) ELSE None

\* save_cache writing the file of every author
save_cache_all(st, author_id, d) ==
    [k \in DOMAIN st |-> File(JsonDump(d))]

save_cache(st, author_id, d) ==
    [st EXCEPT ![author_id] = File(JsonDump(d))]

-----------------------------------------------------------------------------
(* Errors the caller can see: the exception class and what the message says. *)

NoError == [type |-> "", msg |-> ""]
\* entity.py:36
KeyErrorCircular == [type |-> "KeyError", msg |-> "Circular dependence for key"]
\* the no-rule failure raised with the wording of the circular one
KeyErrorNoRuleAsCircular == KeyErrorCircular

\* entity.py:45
KeyErrorNoRule == [type |-> "KeyError", msg |-> "No rule to generate"]
\* entity.py:46, the subscript of a name the producer did not supply
KeyErrorMissing == [type |-> "KeyError", msg |-> "key"]
\* entity.py:16, None has no keys()
AttributeError == [type |-> "AttributeError", msg |-> "NoneType has no attribute keys"]
\* whatever a producer raises; get lets it through (entity.py:40)
ProducerError == [type |-> "ProducerError", msg |-> "raised by the producer"]
\* the interpreter's answer to a recursion that does not end
RecursionError == [type |-> "RecursionError", msg |-> "maximum recursion depth exceeded"]

-----------------------------------------------------------------------------
(* Rule tables (Entity.get_rules).  A producer is described by the names   *)
(* it calls get on, in order, and the two mappings it returns.  An         *)
(* external producer reads the outside world and may raise (env.fail).     *)

NoNums == [n \in {} |-> 0]

Producer(id, inputs, external, cach, noncach) ==
    [id |-> id, inputs |-> inputs, external |-> external, cach |-> cach, noncach |-> noncach]

\* Entity.get_rules: the base class has no rules
EntityRules == [n \in {} |-> Producer("", <<>>, FALSE, NoNums, NoNums)]

\* The producers of the rule table the entity's properties are stated on:
\* one external producer returning ({a:1,b:2},{c:3}), registered for its three
\* names; a derived producer that reads a and returns, non-cacheable, d and a
\* new value for a; two producers that call get on each other.
ProducerAB == Producer("ab", <<>>, TRUE, ("a" :> 1) @@ ("b" :> 2), ("c" :> 3))
ProducerD == Producer("d", <<"a">>, FALSE, NoNums, ("d" :> 4) @@ ("a" :> 9))
ProducerX == Producer("x", <<"y">>, FALSE, ("x" :> 7), NoNums)
ProducerY == Producer("y", <<"x">>, FALSE, ("y" :> 8), NoNums)

TestRules ==
    EntityRules @@
    ("a" :> ProducerAB) @@ ("b" :> ProducerAB) @@ ("c" :> ProducerAB) @@
    ("d" :> ProducerD) @@ ("x" :> ProducerX) @@ ("y" :> ProducerY)

\* what the outside world does during one top-level call
Envs == [fail : BOOLEAN]

\* the mapping a producer returns, from its table entry
Returned(p, nums, env) ==
    [n \in DOMAIN nums |-> PyInt(nums[n])]

ProducerIds(r) == {r[n].id : n \in DOMAIN r}

-----------------------------------------------------------------------------
(* class Author: the rule table of Author.get_rules and its two producers. *)

\* what scholarly.fill answers for the author (entity.py:88-93): the
\* profile, the citations of each year, and the publications, of which one
\* has no year
Publication(has_year, pub_year) == [has_year |-> has_year, pub_year |-> pub_year]

author_filled ==
    [name |-> 1, affiliation |-> 2,
     cites_per_year |-> (IntKey(2020) :> 3) @@ (IntKey(2021) :> 5),
     hindex |-> 6, hindex5y |-> 4,
     publications |-> <<Publication(TRUE, 2020), Publication(TRUE, 2021),
                        Publication(FALSE, 0), Publication(TRUE, 2021)>>,
     time |-> 100]

\* str(year) of a mapping key, and int(y) of one
str(y) == StrKey(y)
int(k) == k.d

\* entity.py:98, the dict comprehension {str(year): count}
StrYears(m) ==
    [k \in {str(j.d) : j \in DOMAIN m} |-> m[CHOOSE j \in DOMAIN m : str(j.d) = k]]

\* entity.py:105-110: the publications of each year that is given
PubsPerYear(pubs) ==
    LET dated == {i \in 1..Len(pubs) : pubs[i].has_year}
    IN [k \in {str(pubs[i].pub_year) : i \in dated} |->
           Cardinality({i \in dated : str(pubs[i].pub_year) = k})]

\* _rule_author without hindex5y in the mapping it returns
rule_author_without_hindex5y(a) ==
    [cach |-> ("name" :> PyStr(a.name)) @@ ("affiliation" :> PyStr(a.affiliation)) @@
              ("citedby_year" :> PyDict(StrYears(a.cites_per_year))) @@
              ("hindex" :> PyInt(a.hindex)) @@
              ("pubs_per_year" :> PyDict(PubsPerYear(a.publications))) @@
              ("fetched_at" :> PyFloat(a.time)),
     noncach |-> NoAttrs]

\* Author._rule_author: the two mappings of line 115
rule_author(a) ==
    [cach |-> ("name" :> PyStr(a.name)) @@ ("affiliation" :> PyStr(a.affiliation)) @@
              ("citedby_year" :> PyDict(StrYears(a.cites_per_year))) @@
              ("hindex" :> PyInt(a.hindex)) @@ ("hindex5y" :> PyInt(a.hindex5y)) @@
              ("pubs_per_year" :> PyDict(PubsPerYear(a.publications))) @@
              ("fetched_at" :> PyFloat(a.time)),
     noncach |-> NoAttrs]

\* the default of _rule_years' parameter
min_year == 1960

\* sorted(S) of a set of numbers
RECURSIVE sorted(_)
sorted(S) ==
    IF S = {} THEN <<>>
    ELSE LET least == CHOOSE y \in S : \A z \in S : y <= z
         IN <<least>> \o sorted(S \ {least})

\* sorted without the filter of line 124
AllYears(S) == sorted(S)

\* entity.py:124
LaterYears(S) == sorted({y \in S : y > min_year})

\* dict.get(key, default)
dict_get(m, key, default) == IF key \in DOMAIN m THEN m[key] ELSE default

\* _rule_years returning its series in the cacheable mapping
YearsReturnedCacheable(noncacheable) == [cach |-> noncacheable, noncach |-> NoAttrs]

\* entity.py:129, return {}, {...}
YearsReturned(noncacheable) == [cach |-> NoAttrs, noncach |-> noncacheable]

\* Author._rule_years, lines 123-134, of the values its two get calls returned
rule_years(citedby, pubs) ==
    LET years == LaterYears({int(y) : y \in DOMAIN citedby.map} \cup
                            {int(y) : y \in DOMAIN pubs.map})
        years_str == [i \in 1..Len(years) |-> str(years[i])]
        citations == [i \in 1..Len(years) |-> dict_get(citedby.map, years_str[i], 0)]
        publications == [i \in 1..Len(years) |-> dict_get(pubs.map, years_str[i], 0)]
    IN YearsReturned(("years" :> NdArray(years)) @@
                     ("years_str" :> PyList([i \in 1..Len(years) |-> years_str[i].d])) @@
                     ("citations" :> NdArray(citations)) @@
                     ("publications" :> NdArray(publications)))

ProducerAuthor == Producer("rule_author", <<>>, TRUE, NoNums, NoNums)
ProducerYears ==
    Producer("rule_years", <<"citedby_year", "pubs_per_year">>, FALSE, NoNums, NoNums)

\* Author.get_rules
AuthorRules ==
    EntityRules @@
    ("name" :> ProducerAuthor) @@ ("affiliation" :> ProducerAuthor) @@
    ("citedby_year" :> ProducerAuthor) @@ ("pubs_per_year" :> ProducerAuthor) @@
    ("hindex" :> ProducerAuthor) @@ ("hindex5y" :> ProducerAuthor) @@
    ("years" :> ProducerYears) @@ ("years_str" :> ProducerYears) @@
    ("citations" :> ProducerYears) @@ ("publications" :> ProducerYears)

\* cacheable, noncacheable = self._rules[key](): the two mappings the
\* producer p returns after its get calls returned vals
Outcome(p, env, vals) ==
    IF p.id = "rule_author" THEN rule_author(author_filled)
    ELSE IF p.id = "rule_years" THEN rule_years(vals[1], vals[2])
    ELSE [cach |-> Returned(p, p.cach, env), noncach |-> Returned(p, p.noncach, env)]

-----------------------------------------------------------------------------
(* class Entity.  An entity's fields travel through the nested calls as a  *)
(* record e of its fields, with the observers calls, changed and marked.   *)

Self == [data |-> data, requested |-> requested, updated |-> updated,
         cacheable |-> cacheable, calls |-> calls, changed |-> changed,
         marked |-> marked]

\* __init__ dropping the data it is given
EntityInitDropsData(r, d) ==
    [err |-> IF d.none THEN AttributeError ELSE NoError, data |-> NoAttrs, cacheable |-> {}]

\* __init__ starting with nothing marked cacheable
EntityInitNoCacheable(r, d) ==
    [err |-> IF d.none THEN AttributeError ELSE NoError,
     data |-> d.map, cacheable |-> {}]

\* Entity.__init__(idx, data): the fields after construction, or the error
EntityInit(r, d) ==
    IF d.none
    THEN \* line 12 builds {'fetched_at': None}; line 16 then reads data.keys()
         [err |-> AttributeError, data |-> NoAttrs, cacheable |-> {}]
    ELSE [err |-> NoError, data |-> d.map, cacheable |-> DOMAIN d.map]

\* set marking the name of a cacheable value without storing the value
SetMarksOnly(e, key, value, c) ==
    IF c
    THEN [e EXCEPT !.cacheable = @ \cup {key},
                   !.updated = TRUE,
                   !.changed = TRUE,
                   !.marked = @ \cup {key}]
    ELSE [e EXCEPT !.data = (key :> value) @@ @,
                   !.changed = @ \/ key \in e.cacheable,
                   !.marked = @ \ {key}]

\* Entity.set
Set(e, key, value, c) ==
    IF c
    THEN [e EXCEPT !.data = (key :> value) @@ @,
                   !.cacheable = @ \cup {key},
                   !.updated = TRUE,
                   !.changed = TRUE,
                   !.marked = @ \cup {key}]
    ELSE [e EXCEPT !.data = (key :> value) @@ @,
                   !.changed = @ \/ key \in e.cacheable,
                   !.marked = @ \ {key}]

\* Entity.append: set for every pair
RECURSIVE append(_, _, _)
append(e, pairs, c) ==
    IF DOMAIN pairs = {} THEN e
    ELSE LET k == CHOOSE n \in DOMAIN pairs : TRUE
             rest == [n \in DOMAIN pairs \ {k} |-> pairs[n]]
         IN append(Set(e, k, pairs[k], c), rest, c)

\* get without the guard of line 35
InProgressUnchecked(e, key) == FALSE

\* entity.py:35
InProgress(e, key) == key \in e.requested

\* get without the memo test of line 37
MemoizedNever(e, key) == FALSE

\* entity.py:37
Memoized(e, key) == key \in DOMAIN e.data

\* get not recording the name it resolves
EnterUnrecorded(e, key) == e

\* entity.py:39
Enter(e, key) == [e EXCEPT !.requested = @ \cup {key}]

\* entity.py:41; reached only when the producer returned
Leave(e, key) == [e EXCEPT !.requested = @ \ {key}]

\* entity.py:38
HasRule(key) == key \in DOMAIN rules

\* an exception leaving a call made at nesting depth `depth`
Raise(e, err, depth) == [e |-> e, err |-> err, val |-> PyNone, depth |-> depth]

RECURSIVE Get(_, _, _, _)
RECURSIVE CallInputs(_, _, _, _, _)

\* the body of a producer: its get calls in order, then what it returns
CallRule(e, p, env, depth) ==
    LET e1 == [e EXCEPT !.calls[p.id] = @ + 1]
        r == CallInputs(e1, p.inputs, 1, env, depth)
    IN IF r.err # NoError THEN r
       ELSE IF p.external /\ env.fail THEN Raise(r.e, ProducerError, depth)
       ELSE r

CallInputs(e, inputs, i, env, depth) ==
    IF i > Len(inputs)
    THEN [e |-> e, err |-> NoError, val |-> PyNone, depth |-> depth, vals |-> <<>>]
    ELSE LET r == Get(e, inputs[i], env, depth + 1)
         IN IF r.err # NoError THEN r
            ELSE LET s == CallInputs(r.e, inputs, i + 1, env, depth)
                     deepest == IF r.depth > s.depth THEN r.depth ELSE s.depth
                 IN IF s.err # NoError THEN [s EXCEPT !.depth = deepest]
                    ELSE [s EXCEPT !.depth = deepest, !.vals = <<r.val>> \o @]

\* Entity.get(key), called at nesting depth `depth` (0 for the caller's own call)
Get(e, key, env, depth) ==
    IF depth > MaxDepth THEN Raise(e, RecursionError, depth)
    ELSE IF InProgress(e, key) THEN Raise(e, KeyErrorCircular, depth)
    ELSE IF Memoized(e, key)
         THEN [e |-> e, err |-> NoError, val |-> e.data[key], depth |-> depth]
    ELSE IF ~HasRule(key) THEN Raise(e, KeyErrorNoRule, depth)
    ELSE LET p == rules[key]
             r == CallRule(Enter(e, key), p, env, depth)
         IN IF r.err # NoError THEN r
            ELSE LET e2 == Leave(r.e, key)
                     o == Outcome(p, env, r.vals)
                     e3 == append(e2, o.cach, TRUE)
                     e4 == append(e3, o.noncach, FALSE)
                 IN IF key \in DOMAIN e4.data
                    THEN [e |-> e4, err |-> NoError, val |-> e4.data[key], depth |-> r.depth]
                    ELSE Raise(e4, KeyErrorMissing, depth)

\* save handing over every attribute
SavedEverything(e) == e.data

\* Entity.save: the mapping handed to save_cache
Saved(e) == [k \in {n \in DOMAIN e.data : n \in e.cacheable} |-> e.data[k]]

\* save without the test of line 24
SaveUnconditionally(e, st, key) ==
    [store |-> save_cache(st, key, Saved(e)), updated |-> FALSE, wrote |-> TRUE]

\* Entity.save, lines 24-26: the store and the dirty flag afterwards
Save(e, st, key) ==
    IF e.updated
    THEN [store |-> save_cache(st, key, Saved(e)), updated |-> FALSE, wrote |-> TRUE]
    ELSE [store |-> st, updated |-> e.updated, wrote |-> FALSE]

-----------------------------------------------------------------------------
(* class ComboPlot (plot.py): one figure with a grid of axes, one cell for *)
(* each author.  A cell is <<row, column>>.                                *)

\* plot.py:53 and what subplots or an index out of the grid raise
ValueError == [type |-> "ValueError", msg |-> "Number of authors is smaller than number of plots"]
SubplotsError == [type |-> "ValueError", msg |-> "Number of rows must be a positive integer"]
IndexError == [type |-> "IndexError", msg |-> "index is out of bounds"]

NoPlot ==
    [built |-> FALSE, nauthors |-> 0, ncols |-> 0, nrows |-> 0, next |-> 0,
     taken |-> <<>>, plotted |-> {}, off |-> {}, turned |-> {}]

\* the number of rows rounded down
RowsRoundedDown(nauthors, ncols) == nauthors \div ncols

\* plot.py:47, (self._nauthors-1)//ncols+1
Rows(nauthors, ncols) == (nauthors - 1) \div ncols + 1

\* self._axes[n//self._ncols, n%self._ncols]
Cell(n, ncols) == <<n \div ncols, n % ncols>>

\* ComboPlot.__init__
ComboInit(nauthors, ncols) ==
    [built |-> TRUE, nauthors |-> nauthors, ncols |-> ncols,
     nrows |-> Rows(nauthors, ncols), next |-> 0,
     taken |-> <<>>, plotted |-> {}, off |-> {}, turned |-> {}]

\* ComboPlot.process: the object afterwards and the error raised;
\* self._mode.process(author) raises when fails
ComboProcess(c, fails) ==
    LET n == c.next
        c1 == [c EXCEPT !.next = @ + 1]
        ax == Cell(n, c.ncols)
        c2 == [c1 EXCEPT !.taken = Append(@, ax)]
    IN IF n >= c.nauthors THEN [c |-> c, err |-> ValueError]
       ELSE IF ax[1] >= c.nrows THEN [c |-> c1, err |-> IndexError]
       ELSE IF fails THEN [c |-> c2, err |-> ProducerError]
       ELSE [c |-> [c2 EXCEPT !.plotted = @ \cup {ax}], err |-> NoError]

\* ComboPlot.finish, lines 61-63: the unused axes are turned off
ComboFinish(c) ==
    LET unused == {Cell(k, c.ncols) : k \in c.next .. (c.ncols * c.nrows - 1)}
    IN [c EXCEPT !.off = @ \cup unused, !.turned = unused]

-----------------------------------------------------------------------------
(* The callers: what is constructed, asked for and injected. *)

Keys == {"k1"}

\* cache files left by earlier runs: none, the whole group of the external
\* producer, and a file that lacks one member of the group
InitFiles ==
    { NoFile,
      File(JsonDump(("a" :> PyInt(1)) @@ ("b" :> PyInt(2)))),
      File(JsonDump(("a" :> PyInt(1)))) }

RuleTables == {TestRules}

\* names the callers ask for: every name with a rule, and one without
GetKeys == DOMAIN rules \cup {"u"}

\* names and values the callers inject with set
SetKeys == {"a"}
SetVals == {PyInt(2), PyDict(IntKey(7) :> 3), PyDict(StrKey(7) :> 3)}

Total(c) ==
    LET RECURSIVE Sum(_)
        Sum(S) == IF S = {} THEN 0
                  ELSE LET x == CHOOSE y \in S : TRUE IN c[x] + Sum(S \ {x})
    IN Sum(DOMAIN c)

Op(name, key, err, val, wrote, arg, invoked, depth) ==
    [name |-> name, key |-> key, err |-> err, val |-> val, wrote |-> wrote,
     arg |-> arg, invoked |-> invoked, depth |-> depth]

NoOp == Op("", "", NoError, PyNone, FALSE, NoAttrs, 0, 0)

\* The observer of set(a, v, cacheable=True); save(); load(k); get(a):
\* stage n after the n-th of these calls was made right after the others.
NoTrip == [stage |-> 0, name |-> "", val |-> PyNone]

TripAfter(o) ==
    IF o.name = "set cacheable" THEN [stage |-> 1, name |-> o.key, val |-> o.val]
    ELSE IF trip.stage = 1 /\ o.name = "save" THEN [trip EXCEPT !.stage = 2]
    ELSE IF trip.stage = 2 /\ o.name = "load" /\ o.key = idx THEN [trip EXCEPT !.stage = 3]
    ELSE IF trip.stage = 3 /\ o.name = "get" /\ o.key = trip.name THEN [trip EXCEPT !.stage = 4]
    ELSE NoTrip

Observe(o) ==
    /\ op' = o
    /\ trip' = TripAfter(o)

Init ==
    /\ store \in [Keys -> InitFiles]
    /\ alive = FALSE
    /\ idx = ""
    /\ data = NoAttrs
    /\ requested = {}
    /\ rules = EntityRules
    /\ updated = FALSE
    /\ cacheable = {}
    /\ calls = [p \in {} |-> 0]
    /\ writes = 0
    /\ changed = FALSE
    /\ marked = {}
    /\ plot = NoPlot
    /\ trip = NoTrip
    /\ op = NoOp

\* cls(idx=k, data=d): lines 10-16.  When __init__ raises, no object comes
\* into being and the caller keeps what it had.
Construct(name, r, k, d) ==
    LET c == EntityInit(r, d)
    IN /\ Observe(Op(name, k, c.err, PyNone, FALSE, NoAttrs, 0, 0))
       /\ IF c.err = NoError
          THEN /\ alive' = TRUE
               /\ idx' = k
               /\ data' = c.data
               /\ requested' = {}
               /\ rules' = r
               /\ updated' = FALSE
               /\ cacheable' = c.cacheable
               /\ calls' = [p \in ProducerIds(r) |-> 0]
               /\ changed' = FALSE
               /\ marked' = c.cacheable
          ELSE UNCHANGED <<alive, idx, data, requested, rules, updated, cacheable,
                           calls, changed, marked>>
       /\ UNCHANGED <<store, writes, plot>>

\* cls(idx=k), the force_reload branch of load_author (main.py:129)
New ==
    \E r \in RuleTables, k \in Keys : Construct("new", r, k, None)

\* cls(idx=k, data={}), an entity that starts empty
NewEmpty ==
    \E r \in RuleTables, k \in Keys : Construct("new empty", r, k, Dict(NoAttrs))

\* cls.load(k), lines 18-21
Load ==
    \E r \in RuleTables, k \in Keys : Construct("load", r, k, load_cache(store, k))

\* entity.get(key), a call of the entity's user, for the names and the
\* outside worlds given
GetAmong(keys, envs, bound) ==
    \E key \in keys, env \in envs :
        LET r == Get(Self, key, env, 0)
        IN /\ alive
           /\ Total(calls) < bound
           /\ data' = r.e.data
           /\ requested' = r.e.requested
           /\ updated' = r.e.updated
           /\ cacheable' = r.e.cacheable
           /\ calls' = r.e.calls
           /\ changed' = r.e.changed
           /\ marked' = r.e.marked
           /\ Observe(Op("get", key, r.err, r.val, FALSE, NoAttrs,
                         Total(r.e.calls) - Total(calls), r.depth))
           /\ UNCHANGED <<store, alive, idx, rules, writes, plot>>

GetUnder(bound) == GetAmong(GetKeys, Envs, bound)

GetCall == GetUnder(MaxCalls)

\* entity.set(key, value, cacheable)
SetCall ==
    \E key \in SetKeys, value \in SetVals, c \in BOOLEAN :
        LET e == Set(Self, key, value, c)
        IN /\ alive
           /\ data' = e.data
           /\ updated' = e.updated
           /\ cacheable' = e.cacheable
           /\ changed' = e.changed
           /\ marked' = e.marked
           /\ Observe(Op(IF c THEN "set cacheable" ELSE "set", key, NoError, value,
                         FALSE, NoAttrs, 0, 0))
           /\ UNCHANGED <<store, alive, idx, requested, rules, calls, writes, plot>>

\* entity.save()
SaveCall ==
    LET s == Save(Self, store, idx)
    IN /\ alive
       /\ s.wrote => writes < MaxWrites
       /\ store' = s.store
       /\ updated' = s.updated
       /\ writes' = IF s.wrote THEN writes + 1 ELSE writes
       /\ changed' = FALSE
       /\ Observe(Op("save", idx, NoError, PyNone, s.wrote,
                     IF s.wrote THEN Saved(Self) ELSE NoAttrs, 0, 0))
       /\ UNCHANGED <<alive, idx, data, requested, rules, cacheable, calls, marked,
                       plot>>

Next == New \/ NewEmpty \/ Load \/ GetCall \/ SetCall \/ SaveCall

Spec == Init /\ [][Next]_vars

-----------------------------------------------------------------------------
(* The Author family: Author entities over cache files of earlier runs,    *)
(* as main.load_author and process_author drive them.                      *)

\* producer invocations observed on one Author entity
MaxAuthorCalls == 3

\* the six names _rule_author is registered for, and the four of _rule_years
AuthorGroup == {"name", "affiliation", "citedby_year", "pubs_per_year", "hindex", "hindex5y"}
Derived == {"years", "years_str", "citations", "publications"}

\* what an earlier run fetched and saved, when the author's indices were lower
Cached ==
    ("name" :> PyStr(1)) @@ ("affiliation" :> PyStr(2)) @@
    ("citedby_year" :> PyDict((StrKey(1960) :> 1) @@ (StrKey(2020) :> 3))) @@
    ("pubs_per_year" :> PyDict((StrKey(2020) :> 1))) @@
    ("hindex" :> PyInt(5)) @@ ("hindex5y" :> PyInt(3)) @@
    ("fetched_at" :> PyFloat(90))

Restrict(m, S) == [n \in S |-> m[n]]

\* cache files: none, the whole group, the two base mappings only, and a
\* file that lacks one member of the group
AuthorFiles ==
    { NoFile,
      File(JsonDump(Cached)),
      File(JsonDump(Restrict(Cached, {"citedby_year", "pubs_per_year"}))),
      File(JsonDump(Restrict(Cached, DOMAIN Cached \ {"hindex5y"}))) }

InitAuthor ==
    /\ store \in [Keys -> AuthorFiles]
    /\ alive = FALSE
    /\ idx = ""
    /\ data = NoAttrs
    /\ requested = {}
    /\ rules = EntityRules
    /\ updated = FALSE
    /\ cacheable = {}
    /\ calls = [p \in {} |-> 0]
    /\ writes = 0
    /\ changed = FALSE
    /\ marked = {}
    /\ plot = NoPlot
    /\ trip = NoTrip
    /\ op = NoOp

\* Author(idx=author_id), main.py:129
AuthorNew ==
    \E k \in Keys : Construct("new", AuthorRules, k, None)

\* Author(idx=author_id, data={})
AuthorNewEmpty ==
    \E k \in Keys : Construct("new empty", AuthorRules, k, Dict(NoAttrs))

\* Author.load(author_id), main.py:127
AuthorLoad ==
    \E k \in Keys : Construct("load", AuthorRules, k, load_cache(store, k))

AuthorGet == GetUnder(MaxAuthorCalls)

NextAuthor == AuthorNew \/ AuthorNewEmpty \/ AuthorLoad \/ AuthorGet \/ SaveCall

SpecAuthor == InitAuthor /\ [][NextAuthor]_vars

-----------------------------------------------------------------------------
(* The year-series family: Author entities that hold any two year-keyed    *)
(* count mappings and are asked for the derived series.                    *)

\* the years that occur as keys: the last one filtered out, the first one
\* kept, and two recent ones
YearSet == {min_year, min_year + 1, 2020, 2021}

\* every mapping from decimal year strings of some of the years to counts
YearMaps(counts) ==
    UNION {[{str(y) : y \in Y} -> counts] : Y \in SUBSET YearSet}

InitYears ==
    /\ store = [k \in Keys |-> NoFile]
    /\ alive = TRUE
    /\ idx \in Keys
    /\ \E citedby \in YearMaps({3, 5}), pubs \in YearMaps({1, 2}) :
          data = ("citedby_year" :> PyDict(citedby)) @@ ("pubs_per_year" :> PyDict(pubs))
    /\ requested = {}
    /\ rules = AuthorRules
    /\ updated = FALSE
    /\ cacheable = DOMAIN data
    /\ calls = [p \in ProducerIds(AuthorRules) |-> 0]
    /\ writes = 0
    /\ changed = FALSE
    /\ marked = DOMAIN data
    /\ plot = NoPlot
    /\ trip = NoTrip
    /\ op = NoOp

\* author.get('years'), get('citations'), get('publications') of main.py:150
\* and get('years_str')
YearsGet == GetAmong(Derived, {[fail |-> FALSE]}, MaxAuthorCalls)

NextYears == YearsGet

SpecYears == InitYears /\ [][NextYears]_vars

-----------------------------------------------------------------------------
(* The two-author family: entities of two authors over one store, as       *)
(* main.py makes them one after the other for the ids of the command line. *)

StoreKeys == {"k1", "k2"}

\* the rule table of the one external producer
StoreRules ==
    EntityRules @@ ("a" :> ProducerAB) @@ ("b" :> ProducerAB) @@ ("c" :> ProducerAB)

InitStore ==
    /\ store \in [StoreKeys -> {NoFile, File(JsonDump(("a" :> PyInt(1))))}]
    /\ alive = FALSE
    /\ idx = ""
    /\ data = NoAttrs
    /\ requested = {}
    /\ rules = EntityRules
    /\ updated = FALSE
    /\ cacheable = {}
    /\ calls = [p \in {} |-> 0]
    /\ writes = 0
    /\ changed = FALSE
    /\ marked = {}
    /\ plot = NoPlot
    /\ trip = NoTrip
    /\ op = NoOp

StoreNew ==
    \E k \in StoreKeys : Construct("new", StoreRules, k, None)

StoreNewEmpty ==
    \E k \in StoreKeys : Construct("new empty", StoreRules, k, Dict(NoAttrs))

StoreLoad ==
    \E k \in StoreKeys : Construct("load", StoreRules, k, load_cache(store, k))

NextStore == StoreNew \/ StoreNewEmpty \/ StoreLoad \/ GetCall \/ SetCall \/ SaveCall

SpecStore == InitStore /\ [][NextStore]_vars

-----------------------------------------------------------------------------
(* The combined-figure family: a ComboPlot of any size within the bounds,  *)
(* given process and finish calls in any order.                            *)

InitCombo ==
    /\ store = [k \in Keys |-> NoFile]
    /\ alive = FALSE
    /\ idx = ""
    /\ data = NoAttrs
    /\ requested = {}
    /\ rules = EntityRules
    /\ updated = FALSE
    /\ cacheable = {}
    /\ calls = [p \in {} |-> 0]
    /\ writes = 0
    /\ changed = FALSE
    /\ marked = {}
    /\ plot = NoPlot
    /\ trip = NoTrip
    /\ op = NoOp

ComboFrame ==
    UNCHANGED <<store, alive, idx, data, requested, rules, updated, cacheable,
                calls, writes, changed, marked>>

\* ComboPlot(nauthors, file_path, ncols); plt.subplots may refuse a grid
\* without rows, and then no object comes into being
ComboNew ==
    \E nauthors \in 0..MaxAuthors, ncols \in 1..MaxCols, refused \in BOOLEAN :
        LET c == ComboInit(nauthors, ncols)
        IN /\ refused => c.nrows = 0
           /\ plot' = IF refused THEN plot ELSE c
           /\ Observe(Op("ComboPlot", "", IF refused THEN SubplotsError ELSE NoError,
                         PyNone, FALSE, NoAttrs, 0, 0))
           /\ ComboFrame

\* combo.process(author)
ComboProcessCall ==
    \E fails \in BOOLEAN :
        LET r == ComboProcess(plot, fails)
        IN /\ plot.built
           /\ plot' = r.c
           /\ Observe(Op("process", "", r.err, PyNone, FALSE, NoAttrs, 0, 0))
           /\ ComboFrame

\* combo.finish()
ComboFinishCall ==
    /\ plot.built
    /\ plot' = ComboFinish(plot)
    /\ Observe(Op("finish", "", NoError, PyNone, FALSE, NoAttrs, 0, 0))
    /\ ComboFrame

NextCombo == ComboNew \/ ComboProcessCall \/ ComboFinishCall

SpecCombo == InitCombo /\ [][NextCombo]_vars

-----------------------------------------------------------------------------
(* The dependency-graph family: every rule table over three names whose    *)
(* producers call get on up to two other names and return their own name;  *)
(* an entity of each, constructed empty, is asked for its names.           *)

GraphNames == {"x", "y", "z"}

InputSeqs ==
    {<<>>} \cup {<<n>> : n \in GraphNames}
           \cup {<<n, m>> : n \in GraphNames, m \in GraphNames}

GraphTables ==
    { [n \in GraphNames |-> Producer(n, f[n], FALSE, (n :> 1), NoNums)] :
        f \in [GraphNames -> InputSeqs] }

InitGraph ==
    /\ store = [k \in Keys |-> NoFile]
    /\ alive = TRUE
    /\ idx = "k1"
    /\ rules \in GraphTables
    /\ data = EntityInit(rules, Dict(NoAttrs)).data
    /\ cacheable = EntityInit(rules, Dict(NoAttrs)).cacheable
    /\ requested = {}
    /\ updated = FALSE
    /\ calls = [p \in ProducerIds(rules) |-> 0]
    /\ writes = 0
    /\ changed = FALSE
    /\ marked = {}
    /\ plot = NoPlot
    /\ trip = NoTrip
    /\ op = NoOp

GraphGet == GetUnder(MaxGraphCalls)

NextGraph == GraphGet

SpecGraph == InitGraph /\ [][NextGraph]_vars

-----------------------------------------------------------------------------
(* Dependency graphs of a rule table. *)

Inputs(r, n) == IF n \in DOMAIN r THEN {r[n].inputs[i] : i \in 1..Len(r[n].inputs)} ELSE {}

RECURSIVE Closure(_, _)
Closure(r, S) ==
    LET T == S \cup UNION {Inputs(r, n) : n \in S}
    IN IF T = S THEN S ELSE Closure(r, T)

\* the names get(x) may come to ask for
ReachFrom(r, x) == Closure(r, {x})

OnCycle(r, n) == n \in Closure(r, Inputs(r, n))

CycleReachable(r, x) == \E n \in ReachFrom(r, x) : OnCycle(r, n)

-----------------------------------------------------------------------------
(* Properties. *)

\* C1: once a name is in the entity's attributes, every later get of it returns
\* the stored value and invokes no producer.
C1_Memoization ==
    [][(op'.name = "get" /\ alive /\ op'.key \in DOMAIN data)
          => /\ op'.err = NoError
             /\ op'.val = data[op'.key]
             /\ calls' = calls]_vars

\* C2: when a dependency cycle can be reached from x and none of the names x
\* depends on is stored, get(x) fails with the circular-dependence KeyError,
\* raised by a nested get no deeper than the number of names, and x stays absent.
C2_CircularDetected ==
    [][(/\ op'.name = "get"
        /\ CycleReachable(rules, op'.key)
        /\ ReachFrom(rules, op'.key) \cap DOMAIN data = {})
          => /\ op'.err = [type |-> "KeyError", msg |-> "Circular dependence for key"]
             /\ op'.key \notin DOMAIN data'
             /\ op'.depth <= Cardinality(DOMAIN rules)
             /\ (requested = {} => op'.depth >= 1)]_vars

\* a get that closed a cycle of three names at the third nested get
C2_Witness ==
    /\ op.name = "get"
    /\ op.err = KeyErrorCircular
    /\ op.depth = 3
    /\ data = NoAttrs

\* C3: between the caller's calls, _requested is empty.
C3_RequestedEmptyAtRest == alive => requested = {}

\* C4: a get that failed because a producer raised leaves its name absent, and
\* the next get of that name runs the producer again and is not reported as a
\* circular dependency.
C4_RetryAfterFailure ==
    [][(op.name = "get" /\ op.err = ProducerError /\ op'.name = "get" /\ op'.key = op.key)
          => /\ op.key \notin DOMAIN data
             /\ op'.err # KeyErrorCircular
             /\ op'.invoked >= 1
             /\ (op'.err = NoError => op'.val = data'[op.key])]_vars

\* C5 (as amended): get of a name that is neither stored nor in the rule table
\* fails with the KeyError that says "No rule to generate", invokes no producer
\* and changes nothing; it differs from the circular failure in its message.
C5_NoRuleKeyError ==
    [][(op'.name = "get" /\ op'.key \notin DOMAIN data /\ op'.key \notin DOMAIN rules)
          => /\ op'.err = [type |-> "KeyError", msg |-> "No rule to generate"]
             /\ op'.err.msg # KeyErrorCircular.msg
             /\ op'.invoked = 0
             /\ UNCHANGED <<data, requested, updated, cacheable, calls, store>>]_vars

\* a get of the name without a rule, made while a failed get has left names behind
C5_Witness ==
    /\ op.name = "get"
    /\ op.key = "u"
    /\ op.err = KeyErrorNoRule
    /\ requested # {}

\* C5 (as claimed): the no-rule failure is of an error kind other than that of
\* the circular-dependence failure.
C5_NoRuleErrorKind ==
    [][(op'.name = "get" /\ op'.key \notin DOMAIN data /\ op'.key \notin DOMAIN rules)
          => /\ op'.err # NoError
             /\ op'.err.type # KeyErrorCircular.type
             /\ op'.invoked = 0]_vars

\* C6: what save hands to the store is exactly the cacheable names with their
\* current values, and that is what the file then holds.
C6_SavedIsCacheablePart ==
    (op.name = "save" /\ op.wrote)
        => /\ DOMAIN op.arg = cacheable
           /\ \A n \in cacheable : op.arg[n] = data[n]
           /\ store[idx] = File(JsonDump(op.arg))

\* the producer returned ({a:1,b:2},{c:3}) and save wrote {a:1,b:2}
C6_Witness ==
    /\ op.name = "save"
    /\ op.wrote
    /\ op.arg = ("a" :> PyInt(1)) @@ ("b" :> PyInt(2))
    /\ "c" \in DOMAIN data
    /\ data["c"] = PyInt(3)

\* C7: constructing with no data (cls(idx=k), or load with no file for k)
\* gives a live entity with empty attributes, cacheable and _requested, not dirty.
C7_FreshEntityUsable ==
    (op.name = "new" \/ (op.name = "load" /\ ~store[op.key].exists))
        => /\ op.err = NoError
           /\ alive
           /\ idx = op.key
           /\ data = NoAttrs
           /\ cacheable = {}
           /\ requested = {}
           /\ ~updated

\* values json.dump and json.load give back as they were
JsonFaithful(v) == v.tag = "dict" => \A k \in DOMAIN v.map : k.kt = "str"

\* C8 (as claimed): after set(a, v, cacheable=True), save, load(k), get(a)
\* returns v and invokes no producer, for any v.
C8_RoundTrip ==
    trip.stage = 4 => (op.err = NoError /\ op.val = trip.val /\ op.invoked = 0)

\* C8 (as amended): the same for every v that JSON represents as it is.
C8_RoundTripFaithful ==
    (trip.stage = 4 /\ JsonFaithful(trip.val))
        => (op.err = NoError /\ op.val = trip.val /\ op.invoked = 0)

\* the four calls made with a string-keyed mapping for a, which has a producer
C8_Witness ==
    /\ trip.stage = 4
    /\ trip.name = "a"
    /\ trip.val = PyDict(StrKey(7) :> 3)
    /\ op.val = PyDict(StrKey(7) :> 3)
    /\ "a" \in DOMAIN rules

\* C9: save writes exactly when dirty and leaves dirty false; when not dirty it
\* writes nothing and changes nothing; a save right after a save writes nothing.
C9_IdempotentSave ==
    [][op'.name = "save"
          => /\ op'.wrote <=> updated
             /\ ~updated'
             /\ ~updated => UNCHANGED <<store, writes, alive, idx, data, requested,
                                        rules, updated, cacheable, calls>>
             /\ op.name = "save" => (~op'.wrote /\ writes' = writes /\ store' = store)]_vars

\* a save that found nothing to write, after an earlier one that wrote
C9_Witness ==
    /\ op.name = "save"
    /\ ~op.wrote
    /\ writes = 1
    /\ cacheable # {}

\* C10: dirty is true exactly when a cacheable name was added or overwritten
\* since the last save (or since construction).
C10_DirtyIffChanged == alive => (updated <=> changed)

\* C11: every value save writes was last stored under the cacheable marking.
C11_SavedWasMarkedCacheable ==
    (op.name = "save" /\ op.wrote) => DOMAIN op.arg \subseteq marked

\* C12: cacheable is a subset of the key set of attributes in every state of
\* an entity created fresh or by load and driven by get, set and save.
C12_CacheableSubsetOfAttributes ==
    alive => cacheable \subseteq DOMAIN data

\* a get stored a producer's two mappings: some attributes are cacheable,
\* some are not
C12_Witness ==
    /\ alive /\ op.name = "get" /\ op.invoked > 0 /\ op.err = NoError
    /\ cacheable # {} /\ cacheable # DOMAIN data
    /\ cacheable \subseteq DOMAIN data

\* C13: when the store holds a mapping M for key k, load(k) yields an entity
\* whose attributes equal M, whose cacheable set is the key set of M, whose
\* in_progress is empty and whose dirty flag is false; a save issued right
\* after it writes nothing.
C13_LoadYieldsStoredMapping ==
    [][(op'.name = "load" /\ store[op'.key].exists) =>
          /\ op'.err = NoError
          /\ alive' /\ idx' = op'.key
          /\ data' = JsonLoad(store[op'.key].text)
          /\ cacheable' = DOMAIN store[op'.key].text
          /\ requested' = {}
          /\ ~updated'
          /\ ~(Save(Self, store, idx).wrote)'
          /\ (Save(Self, store, idx).store)' = store]_vars

\* a load of a mapping that an earlier save of this run wrote
C13_Witness ==
    /\ op.name = "load" /\ op.err = NoError /\ alive
    /\ store[idx].exists /\ writes > 0
    /\ DOMAIN data # {} /\ cacheable = DOMAIN data

\* C14: the four derived names never enter cacheable and no stored mapping
\* contains any of them; on an Author entity that holds the two base
\* mappings (as one loaded from a cache of only these does), the first get of
\* a derived name succeeds, invokes the derived rule once and the network
\* fetch not at all, stores the four series and leaves dirty as it was.
BaseMappings == {"citedby_year", "pubs_per_year"}

C14_DerivedRecomputedNeverPersisted ==
    [][/\ cacheable' \cap Derived = {}
       /\ \A k \in DOMAIN store' :
             store'[k].exists => DOMAIN store'[k].text \cap Derived = {}
       /\ (op'.name = "save" /\ op'.wrote) => DOMAIN op'.arg \cap Derived = {}
       /\ (op'.name = "load" /\ op'.err = NoError /\ DOMAIN data' = BaseMappings) =>
             requested' = {}
       /\ ( /\ op'.name = "get" /\ op'.key \in Derived /\ op'.key \notin DOMAIN data
            /\ BaseMappings \subseteq DOMAIN data /\ BaseMappings \cap requested = {} ) =>
             /\ op'.err = NoError
             /\ calls' = [calls EXCEPT !["rule_years"] = @ + 1]
             /\ Derived \subseteq DOMAIN data'
             /\ updated' = updated]_vars

\* an entity loaded from a cache of the two base mappings resolved a derived
\* name: one invocation of the derived rule, none of the fetch, not dirty
C14_Witness ==
    /\ op.name = "get" /\ op.key \in Derived /\ op.err = NoError
    /\ cacheable = BaseMappings
    /\ DOMAIN data = BaseMappings \cup Derived
    /\ calls["rule_years"] = 1 /\ calls["rule_author"] = 0
    /\ ~updated

\* C15: for any two year-keyed count mappings, years is the ascending
\* duplicate-free list of the years of either mapping greater than 1960,
\* citations[i] and publications[i] are the counts stored for years[i] or 0,
\* and the four series have equal length and are index-aligned; for
\* {2020:3, 2021:5} and {2020:1, 2021:2} the result is [2020,2021], [3,5], [1,2].
C15_YearSeries ==
    (op.name = "get" /\ op.key \in Derived /\ op.err = NoError) =>
        LET citedby == data["citedby_year"].map
            pubs == data["pubs_per_year"].map
            Y == data["years"]
            S == data["years_str"]
            C == data["citations"]
            P == data["publications"]
            Pos == {IdxKey(i) : i \in 0..(Y.num - 1)}
            Count(m, y) == IF StrKey(y) \in DOMAIN m THEN m[StrKey(y)] ELSE 0
        IN /\ S.num = Y.num /\ C.num = Y.num /\ P.num = Y.num
           /\ DOMAIN Y.map = Pos /\ DOMAIN S.map = Pos
           /\ DOMAIN C.map = Pos /\ DOMAIN P.map = Pos
           /\ {Y.map[k] : k \in Pos} =
                 {y \in {k.d : k \in DOMAIN citedby \cup DOMAIN pubs} : y > 1960}
           /\ \A i, j \in Pos : i.d < j.d => Y.map[i] < Y.map[j]
           /\ \A i \in Pos :
                 /\ S.map[i] = Y.map[i]
                 /\ C.map[i] = Count(citedby, Y.map[i])
                 /\ P.map[i] = Count(pubs, Y.map[i])
           /\ ( /\ citedby = (StrKey(2020) :> 3) @@ (StrKey(2021) :> 5)
                /\ pubs = (StrKey(2020) :> 1) @@ (StrKey(2021) :> 2) ) =>
                 /\ Y = NdArray(<<2020, 2021>>)
                 /\ C = NdArray(<<3, 5>>)
                 /\ P = NdArray(<<1, 2>>)

\* the series were computed from mappings that hold a year up to 1960, a
\* year only one of them has, and two years greater than 1960
C15_Witness ==
    /\ op.name = "get" /\ op.key = "citations" /\ op.err = NoError
    /\ data["citedby_year"].map =
          (StrKey(1960) :> 3) @@ (StrKey(2020) :> 3) @@ (StrKey(2021) :> 5)
    /\ data["pubs_per_year"].map = (StrKey(1961) :> 2) @@ (StrKey(2021) :> 1)
    /\ data["years"] = NdArray(<<1961, 2020, 2021>>)
    /\ data["citations"] = NdArray(<<0, 3, 5>>)
    /\ data["publications"] = NdArray(<<2, 0, 1>>)

\* C16: a successful get that invokes the network fetch invokes it once and
\* leaves all six names of the group stored and cacheable; once the six are
\* stored no get of any name fetches; so on an entity none of whose producer
\* invocations failed the fetch has been invoked at most once.
C16_FetchAtMostOnce ==
    [][op'.name = "get" =>
          /\ DOMAIN data \subseteq DOMAIN data'
          /\ AuthorGroup \subseteq DOMAIN data =>
                calls'["rule_author"] = calls["rule_author"]
          /\ (op'.err = NoError /\ calls'["rule_author"] # calls["rule_author"]) =>
                /\ calls'["rule_author"] = calls["rule_author"] + 1
                /\ AuthorGroup \subseteq DOMAIN data'
                /\ AuthorGroup \subseteq cacheable'
          /\ requested' = {} => calls'["rule_author"] <= 1]_vars

\* a derived name was resolved on an entity that had fetched in an earlier
\* get: the derived rule ran, the fetch did not run again
C16_Witness ==
    /\ op.name = "get" /\ op.key \in Derived /\ op.err = NoError
    /\ op.invoked = 1
    /\ calls["rule_author"] = 1 /\ calls["rule_years"] = 1
    /\ requested = {}
    /\ AuthorGroup \subseteq cacheable

\* C17: get(n) for a name n present in attributes returns attributes[n] with
\* no side effects in every state, also while n or other names are in
\* in_progress: no producer is invoked and attributes, cacheable, in_progress
\* and dirty are unchanged.
C17_PresentReturnsImmediately ==
    [][(op'.name = "get" /\ op'.key \in DOMAIN data) =>
          /\ op'.err = NoError
          /\ op'.val = data[op'.key]
          /\ op'.invoked = 0
          /\ data' = data /\ cacheable' = cacheable
          /\ requested' = requested /\ updated' = updated]_vars

\* C18: once a name is present its value stays the same under any get call
\* on any name; a get of an absent name whose producer also returns a
\* present name does not replace that name's value.
C18_ValueStability ==
    [][op'.name = "get" =>
          \A n \in DOMAIN data : n \in DOMAIN data' /\ data'[n] = data[n]]_vars

\* C19: the store's content for a key changes only during a save call on an
\* entity with that key; get, set, load and construction never write, and a
\* failed get causes no write.
C19_NoAutomaticFlush ==
    [][/\ DOMAIN store' = DOMAIN store
       /\ \A k \in DOMAIN store :
             store'[k] # store[k] => (op'.name = "save" /\ op'.wrote /\ k = idx)
       /\ op'.name \in {"get", "set", "set cacheable", "load", "new", "new empty"} =>
             store' = store]_vars

\* a save wrote the file of its author and left the other author's file,
\* which differs from it, as it was
C19_Witness ==
    /\ op.name = "save" /\ op.wrote
    /\ store[idx].exists /\ store[idx].text = JsonDump(Saved(Self))
    /\ \E k \in DOMAIN store : k # idx /\ store[k] # store[idx]

\* C20: for every rule table whose producers only call get on the same
\* entity, every top-level get ends, with a value or an error that is not the
\* interpreter's recursion limit, at a nesting depth of at most the number of
\* names of the table and after at most that many producer invocations.
C20_GetTerminates ==
    [][op'.name = "get" =>
          /\ op'.err.type # "RecursionError"
          /\ op'.depth <= Cardinality(DOMAIN rules)
          /\ op'.invoked <= Cardinality(DOMAIN rules)]_vars

\* a chain of three producers was resolved to its end
C20_Witness ==
    /\ op.name = "get" /\ op.err = NoError
    /\ op.invoked = Cardinality(DOMAIN rules)
    /\ op.depth = Cardinality(DOMAIN rules) - 1
    /\ requested = {}

\* C21: processing an author without force_reload when the store holds all
\* six base attributes for the key (load, get of base and derived attributes,
\* save) performs no network fetch and no write; the store is unchanged.
\* Stated step by step: the load yields an entity that holds the six names and
\* is not dirty; on such an entity no get fetches, marks dirty or writes, a
\* get of a base or derived name succeeds, and save writes nothing.
C21_CachedAuthorNoFetchNoWrite ==
    [][/\ ( /\ op'.name = "load" /\ store[op'.key].exists
            /\ AuthorGroup \subseteq DOMAIN store[op'.key].text ) =>
             /\ op'.err = NoError
             /\ AuthorGroup \subseteq DOMAIN data'
             /\ requested' = {} /\ ~updated'
             /\ calls'["rule_author"] = 0
             /\ store' = store
       /\ (alive /\ AuthorGroup \subseteq DOMAIN data /\ ~updated) =>
             /\ op'.name = "get" =>
                   /\ calls'["rule_author"] = calls["rule_author"]
                   /\ ~updated'
                   /\ store' = store
                   /\ (requested = {} /\ op'.key \in AuthorGroup \cup Derived) =>
                         op'.err = NoError
             /\ op'.name = "save" => (~op'.wrote /\ store' = store)]_vars

\* process_author ran to its end on a cached author: the entity came from
\* the file of the whole group, base and derived attributes were resolved
\* without a fetch, and save wrote nothing
C21_Witness ==
    /\ op.name = "save" /\ ~op.wrote /\ writes = 0
    /\ store[idx] = File(JsonDump(Cached))
    /\ AuthorGroup \cup Derived \subseteq DOMAIN data
    /\ data["hindex"] = PyInt(5)
    /\ calls["rule_author"] = 0 /\ calls["rule_years"] = 1

\* C22: after any sequence of process and finish calls,
\* 0 <= _next <= nauthors <= ncols * nrows; the i-th accepted process call
\* (i from 0) uses cell (i div ncols, i mod ncols), so no two share a cell; a
\* process call made when _next = nauthors raises ValueError and leaves _next
\* unchanged; finish turns off exactly the cells with index from _next to
\* ncols * nrows - 1, none of which an author was plotted on.
C22_AxisAllocation ==
    [][plot'.built =>
          /\ 0 <= plot'.next /\ plot'.next <= plot'.nauthors
          /\ plot'.nauthors <= plot'.ncols * plot'.nrows
          /\ Len(plot'.taken) = plot'.next
          /\ \A i \in 1..Len(plot'.taken) :
                plot'.taken[i] = <<(i - 1) \div plot'.ncols, (i - 1) % plot'.ncols>>
          /\ \A i, j \in 1..Len(plot'.taken) :
                i # j => plot'.taken[i] # plot'.taken[j]
          /\ plot'.plotted \subseteq {plot'.taken[i] : i \in 1..Len(plot'.taken)}
          /\ (op'.name = "process" /\ plot.next = plot.nauthors) =>
                /\ op'.err = ValueError
                /\ plot'.next = plot.next
          /\ (op'.name = "process" /\ plot.next < plot.nauthors) =>
                /\ op'.err.type \notin {"ValueError", "IndexError"}
                /\ plot'.next = plot.next + 1
          /\ op'.name = "finish" =>
                /\ plot'.next = plot.next
                /\ plot'.turned =
                      {<<k \div plot.ncols, k % plot.ncols>> :
                          k \in plot.next .. (plot.ncols * plot.nrows - 1)}
                /\ plot'.turned \cap plot.plotted = {}
                /\ plot'.turned \cap {plot.taken[i] : i \in 1..Len(plot.taken)} = {}]_vars

\* five authors were plotted on a grid of four columns and finish turned
\* off the three cells left in the second row
C22_Witness ==
    /\ op.name = "finish"
    /\ plot.nauthors = 5 /\ plot.ncols = 4 /\ plot.nrows = 2 /\ plot.next = 5
    /\ Cardinality(plot.plotted) = 5
    /\ plot.turned = {<<1, 1>>, <<1, 2>>, <<1, 3>>}

====
